---------------------------- MODULE Spec2Model ----------------------------
(***************************************************************************)
(* A model of src/main.py: the reservation-export workflow run_scraper,    *)
(* its date validator get_date_input, the Selenium driven stages           *)
(* (initialize_driver, login, apply_date_filters) and the CSV normaliser   *)
(* download_and_parse_csv.                                                 *)
(*                                                                         *)
(* Strings that the code inspects character by character (the date         *)
(* inputs) are sequences of one-character strings.  The tokens "ar0",      *)
(* "ar2", "ar5" stand for the Arabic-Indic digits U+0660, U+0662, U+0665:  *)
(* Python's \d matches every Unicode decimal digit of a str.               *)
(***************************************************************************)
EXTENDS Integers, Sequences, FiniteSets, TLC

VARIABLES
    pc,                 \* position of run_scraper (main.py:176-205)
    WEBSITE_URL,        \* main.py:18
    USER_EMAIL,         \* main.py:19
    USER_PASS,          \* main.py:20
    env_url,            \* the environment's WEBSITE_URL as load_dotenv left it
    date_from,          \* main.py:179, None or <<canonical, display>>
    date_to,            \* main.py:180
    raw_input,          \* what input() returned at the last prompt
    outcome,            \* what get_date_input did with the last input
    calendar_checked,   \* whether strptime was called on the last input
    rejected,           \* invalid attempts at the current prompt (saturating)
    pads_year,          \* whether the platform's strftime zero-pads %Y
    driver,             \* run_scraper's local `driver` (main.py:186-188)
    browser,            \* the Chrome process: "none", "running", "closed"
    quit_called,        \* driver.quit() was invoked (main.py:204)
    exc,                \* the exceptions raised so far: <<type, where>>, in order
    reported,           \* what run_scraper printed about its ending
    location,           \* driver.current_url, as a page name
    pending_nav,        \* navigations the browser has still to perform
    old_url,            \* apply_date_filters' old_url (main.py:98)
    identity_sent,      \* times the identity was submitted (main.py:70)
    secret_sent,        \* times the secret was submitted (main.py:76)
    filter_fields,      \* what the filter inputs hold: <<from, to>>
    submits,            \* times the filter form was submitted (main.py:110)
    selenium_cookies,   \* main.py:126, what driver.get_cookies() returned
    session_cookies,    \* the cookie jar of the requests.Session (main.py:127-129)
    response,           \* the export GET's response, or None
    reservations_json,  \* main.py:163, None or the record list
    returned_json,      \* what download_and_parse_csv returned (main.py:174)
    files,              \* the working directory: file name -> content
    files_at_start,     \* the working directory when run_scraper began
    stages              \* the stage events of this run, in order

vars == << pc, WEBSITE_URL, USER_EMAIL, USER_PASS, env_url, date_from, date_to,
           raw_input, outcome, calendar_checked, rejected, pads_year, driver,
           browser, quit_called, exc, reported, location, pending_nav, old_url,
           identity_sent, secret_sent, filter_fields, submits,
           selenium_cookies, session_cookies, response,
           reservations_json, returned_json, files, files_at_start, stages >>

None == "None"

(***************************************************************************)
(* Bounds of the model.                                                    *)
(***************************************************************************)
MaxRejected == 2
MaxRows == 2
MaxCols == 3
MaxCells == 6
MaxCookies == 2

(***************************************************************************)
(* The bounds of the Selenium waits, in seconds.                           *)
(***************************************************************************)
DefaultTimeout == 15
DashboardTimeout == 60
FilterWaitTimeout == 30

\* ------------------------------------------------------------------------
\* Characters and date strings
\* ------------------------------------------------------------------------
AsciiDigits == {"0", "1", "2", "3", "4", "5", "6", "7", "8", "9"}
ArabicDigits == {"ar0", "ar2", "ar5"}
Whitespace == {" ", "\t"}

\* Python's \d on str: any Unicode decimal digit.
IsDigit(c) == c \in AsciiDigits \cup ArabicDigits

\* int() of one decimal digit.
DigitVal(c) ==
    CASE c = "0" -> 0 [] c = "1" -> 1 [] c = "2" -> 2 [] c = "3" -> 3
      [] c = "4" -> 4 [] c = "5" -> 5 [] c = "6" -> 6 [] c = "7" -> 7
      [] c = "8" -> 8 [] c = "9" -> 9
      [] c = "ar0" -> 0 [] c = "ar2" -> 2 [] c = "ar5" -> 5

\* str.strip(): leading and trailing whitespace removed.
RECURSIVE LStrip(_)
LStrip(s) ==
    IF s # <<>> /\ Head(s) \in Whitespace THEN LStrip(Tail(s)) ELSE s

RECURSIVE RStrip(_)
RStrip(s) ==
    IF s # <<>> /\ s[Len(s)] \in Whitespace
    THEN RStrip(SubSeq(s, 1, Len(s) - 1))
    ELSE s

Strip(s) == RStrip(LStrip(s))

\* date_pattern.match(user_input), the pattern ^\d{2}-\d{2}-\d{4}$ .
\* ($ also matches before one trailing newline, which strip() has removed.)
DatePatternMatch(s) ==
    /\ Len(s) = 10
    /\ IsDigit(s[1]) /\ IsDigit(s[2])
    /\ s[3] = "-"
    /\ IsDigit(s[4]) /\ IsDigit(s[5])
    /\ s[6] = "-"
    /\ IsDigit(s[7]) /\ IsDigit(s[8]) /\ IsDigit(s[9]) /\ IsDigit(s[10])

\* strptime's directive %d: 3[0-1]|[1-2]\d|0[1-9]|[1-9]| [1-9] , here on
\* exactly the two characters before the first hyphen.
StrptimeDay(a, b) ==
    \/ a = "3" /\ b \in {"0", "1"}
    \/ a \in {"1", "2"} /\ IsDigit(b)
    \/ a = "0" /\ b \in AsciiDigits \ {"0"}
    \/ a = " " /\ b \in AsciiDigits \ {"0"}

\* strptime's directive %m: 1[0-2]|0[1-9]|[1-9]
StrptimeMonth(a, b) ==
    \/ a = "1" /\ b \in {"0", "1", "2"}
    \/ a = "0" /\ b \in AsciiDigits \ {"0"}

\* strptime's directive %Y: \d\d\d\d
StrptimeYear(s) ==
    IsDigit(s[7]) /\ IsDigit(s[8]) /\ IsDigit(s[9]) /\ IsDigit(s[10])

DayOf(s) == 10 * (IF s[1] = " " THEN 0 ELSE DigitVal(s[1])) + DigitVal(s[2])
MonthOf(s) == 10 * DigitVal(s[4]) + DigitVal(s[5])
YearOf(s) ==
    1000 * DigitVal(s[7]) + 100 * DigitVal(s[8]) + 10 * DigitVal(s[9])
        + DigitVal(s[10])

\* datetime's _is_leap and _days_in_month.
IsLeap(y) == y % 4 = 0 /\ (y % 100 # 0 \/ y % 400 = 0)

DaysInMonth(y, m) ==
    IF m = 2 THEN (IF IsLeap(y) THEN 29 ELSE 28)
    ELSE IF m \in {4, 6, 9, 11} THEN 30 ELSE 31

\* datetime.strptime(user_input, "%d-%m-%Y") returns (TRUE) or raises
\* ValueError (FALSE): the format's regex must match, and the date must be
\* one datetime can hold (MINYEAR is 1).
StrptimeOk(s) ==
    /\ StrptimeDay(s[1], s[2])
    /\ s[3] = "-"
    /\ StrptimeMonth(s[4], s[5])
    /\ s[6] = "-"
    /\ StrptimeYear(s)
    /\ YearOf(s) >= 1
    /\ DayOf(s) <= DaysInMonth(YearOf(s), MonthOf(s))

DigitChar(n) ==
    CASE n = 0 -> "0" [] n = 1 -> "1" [] n = 2 -> "2" [] n = 3 -> "3"
      [] n = 4 -> "4" [] n = 5 -> "5" [] n = 6 -> "6" [] n = 7 -> "7"
      [] n = 8 -> "8" [] n = 9 -> "9"

\* The decimal digits of n, without padding.
RECURSIVE Decimal(_)
Decimal(n) ==
    IF n < 10 THEN << DigitChar(n) >>
    ELSE Decimal(n \div 10) \o << DigitChar(n % 10) >>

RECURSIVE ZeroPad(_, _)
ZeroPad(s, width) == IF Len(s) >= width THEN s ELSE ZeroPad(<<"0">> \o s, width)

\* strftime's %b in the C locale, upper-cased by .upper().
MonthAbbrUpper(m) ==
    CASE m = 1 -> <<"J", "A", "N">> [] m = 2 -> <<"F", "E", "B">>
      [] m = 3 -> <<"M", "A", "R">> [] m = 4 -> <<"A", "P", "R">>
      [] m = 5 -> <<"M", "A", "Y">> [] m = 6 -> <<"J", "U", "N">>
      [] m = 7 -> <<"J", "U", "L">> [] m = 8 -> <<"A", "U", "G">>
      [] m = 9 -> <<"S", "E", "P">> [] m = 10 -> <<"O", "C", "T">>
      [] m = 11 -> <<"N", "O", "V">> [] m = 12 -> <<"D", "E", "C">>

\* strftime's %Y: the C library's, which on glibc does not pad a year below
\* 1000 ("999"); other builds pad it to four digits.  pad says which.
StrftimeYear(y, pad) == IF pad THEN ZeroPad(Decimal(y), 4) ELSE Decimal(y)

\* parsed_date.strftime("%d %b %Y").upper()
FormatDisplay(s, pad) ==
    ZeroPad(Decimal(DayOf(s)), 2) \o <<" ">> \o MonthAbbrUpper(MonthOf(s))
        \o <<" ">> \o StrftimeYear(YearOf(s), pad)

\* One pass of get_date_input's loop body (main.py:34-49) on what input()
\* returned: the kind of the outcome, whether strptime was called, and the
\* returned pair when the input is accepted.
GetDateInputStep(raw, pad) ==
    LET user_input == Strip(raw) IN
    IF ~DatePatternMatch(user_input)
    THEN [kind |-> "InvalidFormat", checked |-> FALSE, value |-> None]
    ELSE IF StrptimeOk(user_input)
    THEN [kind |-> "accepted", checked |-> TRUE,
          value |-> << user_input, FormatDisplay(user_input, pad) >>]
    ELSE [kind |-> "InvalidCalendarDate", checked |-> TRUE, value |-> None]

\* ------------------------------------------------------------------------
\* The inputs the prompts are given
\* ------------------------------------------------------------------------
DayStrs ==
    { <<"0", "0">>, <<"2", "9">>, <<"3", "0">>, <<"3", "1">>, <<"3", "2">>,
      <<"1", "ar2">> }
MonthStrs ==
    { <<"0", "2">>, <<"0", "4">>, <<"1", "2">>, <<"1", "3">> }
YearStrs ==
    { <<"0", "0", "0", "0">>, <<"0", "9", "9", "9">>, <<"1", "9", "0", "0">>,
      <<"2", "0", "2", "4">>, <<"ar2", "ar0", "ar2", "ar5">> }

Dashed(d, m, y) == d \o <<"-">> \o m \o <<"-">> \o y

WellFormedInputs ==
    { Dashed(d, m, y) : d \in DayStrs, m \in MonthStrs, y \in YearStrs }

D22102025 == <<"2", "2", "-", "1", "0", "-", "2", "0", "2", "5">>
D31122024 == <<"3", "1", "-", "1", "2", "-", "2", "0", "2", "4">>
D01010999 == <<"0", "1", "-", "0", "1", "-", "0", "9", "9", "9">>
D30022025 == <<"3", "0", "-", "0", "2", "-", "2", "0", "2", "5">>
Slashed == <<"2", "2", "/", "1", "0", "/", "2", "0", "2", "5">>

MalformedInputs ==
    { <<>>,
      Slashed,
      <<"2", "-", "1", "0", "-", "2", "0", "2", "5">>,
      <<"2", "2", "-", "1", "0", "-", "2", "5">>,
      <<"2", "2", "-", "1", "0", "-", "2", "0", "2", "5", "0">>,
      <<"2", "2", " ", "1", "0", " ", "2", "0", "2", "5">>,
      <<" ", "2", "-", "1", "0", "-", "2", "0", "2", "5">>,
      <<"x", "2", "-", "1", "0", "-", "2", "0", "2", "5">> }

PaddedInputs ==
    { <<" ">> \o D22102025, D22102025 \o <<" ">>,
      <<"\t", " ">> \o D31122024 \o <<" ">>,
      <<" ">> \o D30022025, <<" ">> \o Slashed \o <<" ">>, <<" ", " ">> }

\* Pattern-matching inputs outside the grid above.
OtherInputs ==
    { D22102025, D31122024, D01010999, D30022025,
      <<"0", "1", "-", "0", "0", "-", "2", "0", "2", "4">>,
      <<"0", "1", "-", "1", "ar0", "-", "2", "0", "2", "4">>,
      <<"ar2", "2", "-", "1", "0", "-", "2", "0", "2", "4">> }

\* What the operator may type at a prompt (the validator's specification).
DateInputs ==
    WellFormedInputs \cup MalformedInputs \cup PaddedInputs \cup OtherInputs

\* What the operator types in the runs of the whole workflow.
WorkflowDateInputs ==
    { D22102025, D01010999, D30022025, Slashed, <<" ">> \o D31122024 }

\* ------------------------------------------------------------------------
\* The CSV normaliser's data (download_and_parse_csv, main.py:136-163)
\* ------------------------------------------------------------------------
Range(f) == { f[i] : i \in DOMAIN f }

Min(a, b) == IF a <= b THEN a ELSE b

\* main.py:140-157
columns_to_keep ==
    << "Status", "Guest first name", "Guest last name", "Booking reference",
       "Source", "Occupants", "Check in date", "Check out date", "Booked",
       "ETA", "Rooms", "Payment total", "Payment outstanding",
       "Invoice Number", "Guest email", "Guest phone number" >>

\* pandas' missing-value marker after convert_dtypes().
NA == "<NA>"

\* A cell of the downloaded text: empty, or one of two texts.
EmptyCell == ""
CsvCells == {EmptyCell, "x", "y"}

\* Column names an export may carry: allow-listed ones, out of the
\* allow-list's order, and one that is not allow-listed.
SourceColumns == {"Status", "Extra1", "ETA"}

RECURSIVE SeqsUpTo(_, _)
SeqsUpTo(S, n) ==
    IF n = 0 THEN { <<>> }
    ELSE LET shorter == SeqsUpTo(S, n - 1) IN
         shorter \cup
             { Append(q, x) : q \in { r \in shorter : Len(r) = n - 1 }, x \in S }

IsInjective(q) == \A i, j \in DOMAIN q : q[i] = q[j] => i = j

\* Headers with distinct names (read_csv renames a repeated one).
Headers == { h \in SeqsUpTo(SourceColumns, MaxCols) : h # <<>> /\ IsInjective(h) }

\* The data rows under header h: at most MaxRows rows and MaxCells cells.
RowsFor(h) ==
    SeqsUpTo([1 .. Len(h) -> CsvCells], Min(MaxRows, MaxCells \div Len(h)))

\* A parsed export: its header and its data rows, a cell per column.
CsvTables ==
    UNION { { [header |-> h, rows |-> r] : r \in RowsFor(h) } : h \in Headers }

WorkflowTables ==
    { [header |-> <<"Extra1", "Status">>, rows |-> << <<"x", "x">> >>],
      [header |-> <<"Status", "ETA">>, rows |-> << <<"x", "x">>, <<"x", "">> >>],
      [header |-> <<"Status">>, rows |-> << >>] }

\* df.where(pd.notnull(df), None).convert_dtypes(): an empty cell, which
\* read_csv made NaN, ends as pd.NA (main.py:137, 159).
CleanCell(c) == IF c = EmptyCell THEN NA ELSE c

\* The projection taken in the source's column order.
KeptColumnsInSourceOrder(header) ==
    SelectSeq(header, LAMBDA col : col \in Range(columns_to_keep))

\* [col for col in columns_to_keep if col in df.columns] (main.py:160)
KeptColumns(header) ==
    SelectSeq(columns_to_keep, LAMBDA col : col \in Range(header))

ColumnIndex(header, col) == CHOOSE i \in DOMAIN header : header[i] = col

\* The record of row i: its <<column, value>> pairs in the kept columns'
\* order (main.py:159-163).
RecordOf(table, i) ==
    LET cols == KeptColumns(table.header) IN
    [ j \in 1 .. Len(cols) |->
        << cols[j],
           CleanCell(table.rows[i][ColumnIndex(table.header, cols[j])]) >> ]

\* The record list with the last row first.
ToRecordsReversed(table) ==
    [ i \in 1 .. Len(table.rows) |-> RecordOf(table, Len(table.rows) + 1 - i) ]

\* df[...].to_dict(orient="records") (main.py:160-163): one record per row,
\* in row order.
ToRecords(table) ==
    [ i \in 1 .. Len(table.rows) |-> RecordOf(table, i) ]

\* json.dump cannot serialise pd.NA (TypeError).
Serialisable(record) == \A j \in DOMAIN record : record[j][2] # NA

\* The number of leading records json.dump writes before it raises, or the
\* whole list when it raises nowhere.
RECURSIVE DumpedPrefix(_)
DumpedPrefix(records) ==
    IF records = <<>> \/ ~Serialisable(Head(records)) THEN 0
    ELSE 1 + DumpedPrefix(Tail(records))

\* f"reservations_{date_from}_to_{date_to}.json" (main.py:168)
OutputFilename(from, to) == << "reservations_", from, "_to_", to, ".json" >>

\* The working directory with `content` added after what `name` held.
WithFileAppended(dir, name, content) ==
    [ n \in DOMAIN dir \cup {name} |->
        IF n # name THEN dir[n]
        ELSE IF name \in DOMAIN dir
        THEN [records |-> dir[name].records \o content.records,
              complete |-> content.complete]
        ELSE content ]

\* The working directory with `name` holding `content`: open(name, "w")
\* drops what the file held (main.py:169).
WithFile(dir, name, content) ==
    [ n \in DOMAIN dir \cup {name} |-> IF n = name THEN content ELSE dir[n] ]

EmptyDir == [ n \in {} |-> None ]

\* A file an earlier run left behind.
PriorContent ==
    [records |-> << << <<"Status", "old">> >> >>, complete |-> TRUE]
PriorDir == WithFile(EmptyDir, OutputFilename(D22102025, D22102025), PriorContent)

\* ------------------------------------------------------------------------
\* The export bridge's cookies (download_and_parse_csv, main.py:126-129)
\* ------------------------------------------------------------------------
\* A cookie as driver.get_cookies() lists it.
Cookie(n, v, d, p) == [name |-> n, value |-> v, domain |-> d, path |-> p]

\* Cookies the browser may hold for the list page: two of one name under
\* different domains, and one of another name.
CookiePool ==
    { Cookie("sid", "a", "app.hotel.example", "/"),
      Cookie("sid", "b", ".hotel.example", "/"),
      Cookie("lang", "en", "app.hotel.example", "/") }

\* What driver.get_cookies() may return: distinct cookies, in some order.
CookieLists == { l \in SeqsUpTo(CookiePool, MaxCookies) : IsInjective(l) }

\* requests.Session(): a new session, its jar empty (main.py:127).
EmptyJar == [ k \in {} |-> "" ]

\* session.cookies.set(name, value) (main.py:129): create_cookie gives the
\* cookie the domain "" and the path "/", and the jar holds one cookie per
\* <<domain, path, name>>.
JarSet(jar, name, value) ==
    LET key == << "", "/", name >> IN
    [ k \in DOMAIN jar \cup {key} |-> IF k = key THEN value ELSE jar[k] ]

\* for cookie in selenium_cookies: session.cookies.set(...) (main.py:128-129)
RECURSIVE InstallCookies(_, _)
InstallCookies(jar, cookies) ==
    IF cookies = <<>> THEN jar
    ELSE InstallCookies(JarSet(jar, Head(cookies).name, Head(cookies).value),
                        Tail(cookies))

\* ------------------------------------------------------------------------
\* The export GET's answers (main.py:133-134)
\* ------------------------------------------------------------------------
\* The status of the final response: requests follows a redirect that names
\* a Location; a 300 is returned as it is.
ExportStatuses == {200, 300, 404, 500}

\* response.raise_for_status(): HTTPError for a 4xx or a 5xx status.
RaisesForStatus(status) == 400 <= status /\ status < 600

\* str(e) of an exception of the try block, as the handler prints it.
\* WebDriverWait.until is called with no message, so a TimeoutException's
\* text names neither the locator nor the wait; an HTTPError's text starts
\* with the status code.
ExceptionText(type, resp) ==
    CASE type = "TimeoutException" -> "Message: "
      [] type = "NoSuchElementException" -> "Message: no such element"
      [] type = "WebDriverException" -> "Message: unknown error"
      [] type = "ConnectionError" -> "Connection aborted."
      [] type = "HTTPError" ->
            ToString(resp.status)
                \o (IF resp.status < 500 THEN " Client Error" ELSE " Server Error")
      [] type = "ParserError" -> "Error tokenizing data"
      [] type = "TypeError" -> "Object of type NAType is not JSON serializable"
      [] type = "OSError" -> "[Errno 28] No space left on device"

\* ------------------------------------------------------------------------
\* The pages of the target application and what each one shows
\* ------------------------------------------------------------------------
\* A navigable location: the page and, on the reservation list, the filter
\* its query string encodes (<<>>: none, else <<from, to>>).
Page(name) == [page |-> name, filter |-> <<>>]
ListPage(filter) == [page |-> "list", filter |-> filter]

\* A filter the application may have kept from an earlier visit.
RememberedFilter ==
    << FormatDisplay(D22102025, TRUE), FormatDisplay(D22102025, TRUE) >>

HasIdentityField(loc) == loc.page = "login"          \* (By.NAME, "username")
HasSecretField(loc) == loc.page = "password"         \* (By.NAME, "password")
HasDashboardMarker(loc) == loc.page \in {"dashboard", "list"}
HasReservationsLink(loc) == loc.page \in {"dashboard", "list"}
HasFilterForm(loc) == loc.page = "list"
HasExportLink(loc) == loc.page = "list"

DefaultUrl == "https://app.littlehotelier.com/"
ConfiguredUrl == "https://hotel.example/"

\* os.getenv("WEBSITE_URL") or "https://app.littlehotelier.com/" (main.py:18)
LoadWebsiteUrl(value) == IF value \in {None, ""} THEN DefaultUrl ELSE value

\* all([WEBSITE_URL, USER_EMAIL, USER_PASS]) (main.py:182)
ConfigComplete(url, email, pass) ==
    /\ url \notin {None, ""}
    /\ email \notin {None, ""}
    /\ pass \notin {None, ""}

\* ------------------------------------------------------------------------
\* State
\* ------------------------------------------------------------------------
dateVars == << date_from, date_to, raw_input, outcome, calendar_checked, rejected >>
cfgVars == << WEBSITE_URL, USER_EMAIL, USER_PASS, env_url, pads_year, files_at_start >>
browserVars == << browser, location, pending_nav >>
loginVars == << identity_sent, secret_sent >>
filterVars == << old_url, filter_fields, submits >>
bridgeVars == << selenium_cookies, session_cookies >>
exportVars == << response, reservations_json, returned_json, files >>

NoResponse == [status |-> 0, parseable |-> FALSE, table |-> [header |-> <<>>, rows |-> <<>>]]

\* The module has been loaded (main.py:17-20) and run_scraper is entered.
Init ==
    /\ pc = "date_start"
    /\ env_url \in {None, "", ConfiguredUrl}
    /\ WEBSITE_URL = LoadWebsiteUrl(env_url)
    /\ USER_EMAIL \in {None, "", "user@hotel.example"}
    /\ USER_PASS \in {None, "", "secret"}
    /\ pads_year \in BOOLEAN
    /\ date_from = <<>> /\ date_to = <<>>
    /\ raw_input = <<>> /\ outcome = "none" /\ calendar_checked = FALSE
    /\ rejected = 0
    /\ driver = None /\ browser = "none" /\ quit_called = FALSE
    /\ exc = <<>> /\ reported = <<>>
    /\ location = Page("blank") /\ pending_nav = <<>> /\ old_url = <<>>
    /\ identity_sent = 0 /\ secret_sent = 0
    /\ filter_fields = << <<>>, <<>> >> /\ submits = 0
    /\ selenium_cookies = <<>> /\ session_cookies = EmptyJar
    /\ response = NoResponse
    /\ reservations_json = <<>> /\ returned_json = <<>>
    /\ files \in {EmptyDir, PriorDir}
    /\ files_at_start = files
    /\ stages = <<>>

\* An exception leaves the step at `pc` for run_scraper's handler.
Raise(type) == exc' = Append(exc, << type, pc >>) /\ pc' = "except"

\* ------------------------------------------------------------------------
\* get_date_input (main.py:29-49), one pass of its loop per step
\* ------------------------------------------------------------------------
\* Where the loop goes after a pass: back to the prompt (continue, or the
\* end of the except block), or out with the accepted value.
AfterPass(here, next, kind) == IF kind = "accepted" THEN next ELSE here

GetDateInput(here, next, inputs) ==
    /\ pc = here
    /\ \/ \* input() raises EOFError: nothing in run_scraper catches it here
          /\ exc' = Append(exc, << "EOFError", here >>)
          /\ pc' = "escaped"
          /\ UNCHANGED << dateVars, stages >>
       \/ \E raw \in inputs : \E r \in { GetDateInputStep(raw, pads_year) } :
            /\ raw_input' = raw
            /\ outcome' = r.kind
            /\ calendar_checked' = r.checked
            /\ pc' = AfterPass(here, next, r.kind)
            /\ rejected' = IF r.kind = "accepted" THEN 0
                           ELSE Min(rejected + 1, MaxRejected)
            /\ date_from' = IF r.kind = "accepted" /\ here = "date_start"
                            THEN r.value ELSE date_from
            /\ date_to' = IF r.kind = "accepted" /\ here = "date_end"
                          THEN r.value ELSE date_to
            /\ stages' = IF r.kind = "accepted" /\ here = "date_end"
                         THEN Append(stages, "validate.ok") ELSE stages
            /\ UNCHANGED exc
    /\ UNCHANGED << cfgVars, browserVars, loginVars, filterVars, bridgeVars, exportVars,
                    driver, quit_called, reported >>

\* date_from = get_date_input("start") (main.py:179)
GetDateStart(inputs) == GetDateInput("date_start", "date_end", inputs)

\* date_to = get_date_input("end") (main.py:180)
GetDateEnd(inputs) == GetDateInput("date_end", "check_env", inputs)

\* ------------------------------------------------------------------------
\* run_scraper (main.py:176-205)
\* ------------------------------------------------------------------------
\* main.py:182-186
CheckEnv ==
    /\ pc = "check_env"
    /\ IF ~ConfigComplete(WEBSITE_URL, USER_EMAIL, USER_PASS)
       THEN /\ reported' = Append(reported, "ERROR: Missing environment variables.")
            /\ pc' = "returned"
       ELSE /\ pc' = "init_driver"
            /\ UNCHANGED reported
    /\ UNCHANGED << dateVars, cfgVars, browserVars, loginVars, filterVars,
                    bridgeVars, exportVars, driver, quit_called, exc, stages >>

\* driver = initialize_driver() (main.py:53-58, 188): webdriver.Chrome() may
\* fail before a browser exists, maximize_window() after; `driver` is bound
\* only when initialize_driver returns.
InitializeDriver ==
    /\ pc = "init_driver"
    /\ \E result \in {"chrome_fails", "maximize_fails", "ok"} :
         CASE result = "chrome_fails" ->
                /\ Raise("WebDriverException")
                /\ stages' = Append(stages, "session")
                /\ UNCHANGED << driver, browser >>
           [] result = "maximize_fails" ->
                /\ browser' = "running"
                /\ Raise("WebDriverException")
                /\ stages' = Append(stages, "session")
                /\ UNCHANGED driver
           [] result = "ok" ->
                /\ browser' = "running"
                /\ driver' = "driver"
                /\ pc' = "login_get"
                /\ stages' = stages \o << "session", "session.ok" >>
                /\ UNCHANGED exc
    /\ UNCHANGED << dateVars, cfgVars, location, pending_nav, loginVars,
                    filterVars, bridgeVars, exportVars, quit_called, reported >>

\* The browser performs a navigation the script started, at its own pace.
BrowserNavigate ==
    /\ browser = "running"
    /\ pending_nav # <<>>
    /\ location' = Head(pending_nav)
    /\ pending_nav' = <<>>
    /\ UNCHANGED << pc, dateVars, cfgVars, browser, loginVars, filterVars,
                    bridgeVars, exportVars, driver, quit_called, exc, reported, stages >>

\* ------------------------------------------------------------------------
\* login (main.py:61-85)
\* ------------------------------------------------------------------------
\* driver.get(WEBSITE_URL) (main.py:64): returns when the page has loaded.
LoginGet ==
    /\ pc = "login_get"
    /\ stages' = Append(stages, "login")
    /\ \/ /\ Raise("WebDriverException")
          /\ UNCHANGED << location, pending_nav >>
       \/ /\ location' \in {Page("login"), Page("other")}
          /\ pending_nav' = <<>>
          /\ pc' = "login_identity"
          /\ UNCHANGED exc
    /\ UNCHANGED << dateVars, cfgVars, browser, loginVars, filterVars,
                    bridgeVars, exportVars, driver, quit_called, reported >>

\* main.py:67-70: wait for the identity field, type the identity and ENTER.
LoginIdentity ==
    /\ pc = "login_identity"
    /\ IF HasIdentityField(location)
       THEN /\ identity_sent' = identity_sent + 1
            /\ pending_nav' = << Page("password") >>
            /\ pc' = "login_secret"
            /\ UNCHANGED exc
       ELSE /\ Raise("TimeoutException")
            /\ UNCHANGED << identity_sent, pending_nav >>
    /\ UNCHANGED << dateVars, cfgVars, browser, location, secret_sent,
                    filterVars, bridgeVars, exportVars, driver, quit_called, reported,
                    stages >>

\* main.py:73-76: wait for the secret field, type the secret and ENTER.  The
\* application then opens the dashboard, or does not (wrong credentials).
LoginSecret ==
    /\ pc = "login_secret"
    /\ IF HasSecretField(location)
       THEN /\ secret_sent' = secret_sent + 1
            /\ pending_nav' \in { << Page("dashboard") >>, <<>> }
            /\ pc' = "login_dashboard"
            /\ UNCHANGED exc
       ELSE /\ Raise("TimeoutException")
            /\ UNCHANGED << secret_sent, pending_nav >>
    /\ UNCHANGED << dateVars, cfgVars, browser, location, identity_sent,
                    filterVars, bridgeVars, exportVars, driver, quit_called, reported,
                    stages >>

\* A login that goes on without having seen the marker.
LoginDashboardUnchecked ==
    /\ pc = "login_dashboard"
    /\ pc' = "click_reservations"
    /\ stages' = Append(stages, "login.ok")
    /\ UNCHANGED << dateVars, cfgVars, browserVars, loginVars, filterVars,
                    bridgeVars, exportVars, driver, quit_called, exc, reported >>

\* main.py:79-85: the 60 s wait for the dashboard-ready marker.
LoginDashboard ==
    /\ pc = "login_dashboard"
    /\ IF HasDashboardMarker(location)
       THEN /\ pc' = "click_reservations"
            /\ stages' = Append(stages, "login.ok")
            /\ UNCHANGED exc
       ELSE /\ Raise("TimeoutException")
            /\ UNCHANGED stages
    /\ UNCHANGED << dateVars, cfgVars, browserVars, loginVars, filterVars,
                    bridgeVars, exportVars, driver, quit_called, reported >>

\* driver.find_element(By.LINK_TEXT, "Reservations").click() (main.py:194):
\* no wait; the click starts a navigation and returns.  The list opens with
\* no filter in its location, or with the one the application remembers.
ClickReservations ==
    /\ pc = "click_reservations"
    /\ \E found \in BOOLEAN :
         IF found /\ HasReservationsLink(location)
         THEN /\ \E shown \in {<<>>, RememberedFilter} :
                   pending_nav' = << ListPage(shown) >>
              /\ pc' = "filter_capture"
              /\ stages' = stages \o << "navigate", "navigate.ok" >>
              /\ UNCHANGED exc
         ELSE /\ Raise("NoSuchElementException")
              /\ stages' = Append(stages, "navigate")
              /\ UNCHANGED pending_nav
    /\ UNCHANGED << dateVars, cfgVars, browser, location, loginVars,
                    filterVars, bridgeVars, exportVars, driver, quit_called, reported >>

\* ------------------------------------------------------------------------
\* apply_date_filters (main.py:88-114), called with the display forms
\* ------------------------------------------------------------------------
\* old_url = driver.current_url (main.py:98)
FilterCapture ==
    /\ pc = "filter_capture"
    /\ old_url' = << location >>
    /\ pc' = "filter_from"
    /\ stages' = Append(stages, "filter")
    /\ UNCHANGED << dateVars, cfgVars, browserVars, loginVars, filter_fields,
                    submits, bridgeVars, exportVars, driver, quit_called, exc, reported >>

\* main.py:101-103
FilterFrom ==
    /\ pc = "filter_from"
    /\ IF HasFilterForm(location)
       THEN /\ filter_fields' = << date_from[2], filter_fields[2] >>
            /\ pc' = "filter_to"
            /\ UNCHANGED exc
       ELSE /\ Raise("TimeoutException")
            /\ UNCHANGED filter_fields
    /\ UNCHANGED << dateVars, cfgVars, browserVars, loginVars, old_url,
                    submits, bridgeVars, exportVars, driver, quit_called, reported, stages >>

\* main.py:105-107
FilterTo ==
    /\ pc = "filter_to"
    /\ IF HasFilterForm(location)
       THEN /\ filter_fields' = << filter_fields[1], date_to[2] >>
            /\ pc' = "filter_submit"
            /\ UNCHANGED exc
       ELSE /\ Raise("TimeoutException")
            /\ UNCHANGED filter_fields
    /\ UNCHANGED << dateVars, cfgVars, browserVars, loginVars, old_url,
                    submits, bridgeVars, exportVars, driver, quit_called, reported, stages >>

\* driver.find_element(By.XPATH, "//button[@type='submit']").click()
\* (main.py:110): the application re-navigates to the filtered list.
FilterSubmit ==
    /\ pc = "filter_submit"
    /\ IF HasFilterForm(location)
       THEN /\ submits' = submits + 1
            /\ pending_nav' = << ListPage(filter_fields) >>
            /\ pc' = "filter_wait"
            /\ UNCHANGED exc
       ELSE /\ Raise("NoSuchElementException")
            /\ UNCHANGED << submits, pending_nav >>
    /\ UNCHANGED << dateVars, cfgVars, browser, location, loginVars, old_url,
                    filter_fields, bridgeVars, exportVars, driver, quit_called, reported,
                    stages >>

\* A wait that returns whatever the location is.
FilterWaitUnchecked ==
    /\ pc = "filter_wait"
    /\ pc' = "export_locate"
    /\ stages' = Append(stages, "filter.ok")
    /\ UNCHANGED << dateVars, cfgVars, browserVars, loginVars, filterVars,
                    bridgeVars, exportVars, driver, quit_called, exc, reported >>

\* WebDriverWait(driver, 30).until(lambda d: d.current_url != old_url)
\* (main.py:114)
FilterWait ==
    /\ pc = "filter_wait"
    /\ IF location # old_url[1]
       THEN /\ pc' = "export_locate"
            /\ stages' = Append(stages, "filter.ok")
            /\ UNCHANGED exc
       ELSE /\ Raise("TimeoutException")
            /\ UNCHANGED stages
    /\ UNCHANGED << dateVars, cfgVars, browserVars, loginVars, filterVars,
                    bridgeVars, exportVars, driver, quit_called, reported >>

\* ------------------------------------------------------------------------
\* download_and_parse_csv (main.py:116-174), called with the canonical forms
\* ------------------------------------------------------------------------
\* main.py:121-129: the export link, its URL, then the browser's cookies
\* copied into a new requests.Session.
ExportLocate ==
    /\ pc = "export_locate"
    /\ stages' = Append(stages, "export")
    /\ IF HasExportLink(location)
       THEN /\ \E cookies \in CookieLists :
                 /\ selenium_cookies' = cookies
                 /\ session_cookies' = InstallCookies(EmptyJar, cookies)
            /\ pc' = "export_download"
            /\ UNCHANGED exc
       ELSE /\ Raise("TimeoutException")
            /\ UNCHANGED bridgeVars
    /\ UNCHANGED << dateVars, cfgVars, browserVars, loginVars, filterVars,
                    exportVars, driver, quit_called, reported >>

\* response = session.get(full_url); response.raise_for_status()
\* (main.py:133-134).  session.get is given no timeout: requests then waits
\* for the server's answer without bound.
ExportDownload(tables) ==
    /\ pc = "export_download"
    /\ \/ \* the server accepts the connection and never answers
          /\ pc' = "export_blocked"
          /\ UNCHANGED << response, exc >>
       \/ /\ Raise("ConnectionError")
          /\ UNCHANGED response
       \/ \E status \in ExportStatuses :
            IF RaisesForStatus(status)
            THEN /\ response' = [NoResponse EXCEPT !.status = status]
                 /\ Raise("HTTPError")
            ELSE /\ \/ response' = [NoResponse EXCEPT !.status = status]
                    \/ \E t \in tables :
                         response' = [status |-> status, parseable |-> TRUE,
                                      table |-> t]
                 /\ pc' = "parse"
                 /\ UNCHANGED exc
    /\ UNCHANGED << dateVars, cfgVars, browserVars, loginVars, filterVars,
                    bridgeVars, reservations_json, returned_json, files,
                    driver, quit_called, reported, stages >>

\* main.py:137-164: read_csv, the clean-up, the projection, to_dict.
ParseAndProject ==
    /\ pc = "parse"
    /\ IF response.parseable
       THEN /\ reservations_json' = << ToRecords(response.table) >>
            /\ pc' = "save"
            /\ stages' = Append(stages, "export.ok")
            /\ UNCHANGED exc
       ELSE /\ Raise("ParserError")
            /\ UNCHANGED << reservations_json, stages >>
    /\ UNCHANGED << dateVars, cfgVars, browserVars, loginVars, filterVars,
                    bridgeVars, response, returned_json, files, driver,
                    quit_called, reported >>

\* main.py:167-174: open(output_filename, "w") creates or truncates the file,
\* json.dump writes record after record and raises at the first value it
\* cannot serialise (or when a write fails); the with block closes the file.
SaveFile ==
    /\ pc = "save"
    /\ LET records == reservations_json[1]
           name == OutputFilename(date_from[1], date_to[1])
           dumped == DumpedPrefix(records)
       IN \/ \* open() fails
             /\ Raise("OSError")
             /\ UNCHANGED << files, returned_json >>
          \/ \* a write fails after k records
             \E k \in 0 .. dumped :
               /\ files' = WithFile(files, name,
                               [records |-> SubSeq(records, 1, k), complete |-> FALSE])
               /\ Raise("OSError")
               /\ UNCHANGED returned_json
          \/ /\ dumped < Len(records)
             /\ files' = WithFile(files, name,
                             [records |-> SubSeq(records, 1, dumped), complete |-> FALSE])
             /\ Raise("TypeError")
             /\ UNCHANGED returned_json
          \/ /\ dumped = Len(records)
             /\ files' = WithFile(files, name, [records |-> records, complete |-> TRUE])
             /\ returned_json' = << records >>
             /\ pc' = "finally"
             /\ UNCHANGED exc
    /\ stages' = stages \o (IF pc' = "finally" THEN << "write", "write.ok" >>
                            ELSE << "write" >>)
    /\ UNCHANGED << dateVars, cfgVars, browserVars, loginVars, filterVars,
                    bridgeVars, response, reservations_json, driver,
                    quit_called, reported >>

\* ------------------------------------------------------------------------
\* run_scraper's handler and cleanup (main.py:199-205)
\* ------------------------------------------------------------------------
\* print(f"An error occurred: {e}") (main.py:200)
ErrorLine(e, resp) == "An error occurred: " \o ExceptionText(e[1], resp)

\* except Exception as e: print(f"An error occurred: {e}")
Except ==
    /\ pc = "except"
    /\ reported' = Append(reported, ErrorLine(exc[Len(exc)], response))
    /\ pc' = "finally"
    /\ UNCHANGED << dateVars, cfgVars, browserVars, loginVars, filterVars,
                    bridgeVars, exportVars, driver, quit_called, exc, stages >>

\* A cleanup block that closes nothing.
FinallyWithoutQuit ==
    /\ pc = "finally"
    /\ pc' = "returned"
    /\ UNCHANGED << dateVars, cfgVars, browserVars, loginVars, filterVars,
                    bridgeVars, exportVars, driver, quit_called, exc, reported, stages >>

\* finally: if driver: driver.quit(); print("Browser closed.")
\* A quit() that raises leaves run_scraper with that exception.
Finally ==
    /\ pc = "finally"
    /\ IF driver # None
       THEN /\ quit_called' = TRUE
            /\ stages' = Append(stages, "cleanup")
            /\ \/ /\ browser' = "closed"
                  /\ reported' = Append(reported, "Browser closed.")
                  /\ pc' = "returned"
                  /\ UNCHANGED exc
               \/ /\ browser' \in {"closed", "running"}
                  /\ exc' = Append(exc, << "WebDriverException", "finally" >>)
                  /\ pc' = "escaped"
                  /\ UNCHANGED reported
       ELSE /\ pc' = "returned"
            /\ UNCHANGED << quit_called, stages, browser, reported, exc >>
    /\ UNCHANGED << dateVars, cfgVars, location, pending_nav, loginVars,
                    filterVars, bridgeVars, exportVars, driver >>

\* ------------------------------------------------------------------------
\* Specifications
\* ------------------------------------------------------------------------
\* The whole workflow.
Next ==
    \/ GetDateStart(WorkflowDateInputs)
    \/ GetDateEnd(WorkflowDateInputs)
    \/ CheckEnv
    \/ InitializeDriver
    \/ BrowserNavigate
    \/ LoginGet
    \/ LoginIdentity
    \/ LoginSecret
    \/ LoginDashboard
    \/ ClickReservations
    \/ FilterCapture
    \/ FilterFrom
    \/ FilterTo
    \/ FilterSubmit
    \/ FilterWait
    \/ ExportLocate
    \/ ExportDownload(WorkflowTables)
    \/ ParseAndProject
    \/ SaveFile
    \/ Except
    \/ Finally

Spec == Init /\ [][Next]_vars

\* The script is one thread that runs on while a step is possible, and the
\* browser performs the navigations it was asked for.
SpecLive == Spec /\ WF_vars(Next)

\* The date validator alone, on every input of DateInputs.
NextDate ==
    \/ GetDateStart(DateInputs)
    \/ GetDateEnd(DateInputs)

\* One configuration of Init: the validator reads none of it but pads_year.
InitDate ==
    /\ Init
    /\ env_url = ConfiguredUrl
    /\ USER_EMAIL # None /\ USER_EMAIL # ""
    /\ USER_PASS # None /\ USER_PASS # ""
    /\ files = EmptyDir

SpecDate == InitDate /\ [][NextDate]_vars

\* The normaliser alone, on every table of CsvTables: run_scraper has
\* validated 22-10-2025 twice, logged in, filtered the list and found the
\* export link.
InitCsv ==
    /\ pc = "export_download"
    /\ env_url = ConfiguredUrl
    /\ WEBSITE_URL = ConfiguredUrl
    /\ USER_EMAIL = "user@hotel.example"
    /\ USER_PASS = "secret"
    /\ pads_year = FALSE
    /\ date_from = GetDateInputStep(D22102025, pads_year).value
    /\ date_to = date_from
    /\ raw_input = D22102025 /\ outcome = "accepted" /\ calendar_checked = TRUE
    /\ rejected = 0
    /\ driver = "driver" /\ browser = "running" /\ quit_called = FALSE
    /\ exc = <<>> /\ reported = <<>>
    /\ location = ListPage(<< date_from[2], date_to[2] >>)
    /\ pending_nav = <<>>
    /\ old_url = << ListPage(<<>>) >>
    /\ identity_sent = 1 /\ secret_sent = 1
    /\ filter_fields = << date_from[2], date_to[2] >> /\ submits = 1
    /\ selenium_cookies = << Cookie("sid", "a", "app.hotel.example", "/") >>
    /\ session_cookies = InstallCookies(EmptyJar, selenium_cookies)
    /\ response = NoResponse
    /\ reservations_json = <<>> /\ returned_json = <<>>
    /\ files \in {EmptyDir, PriorDir}
    /\ files_at_start = files
    /\ stages = << "validate.ok", "session", "session.ok", "login", "login.ok",
                   "navigate", "navigate.ok", "filter", "filter.ok", "export" >>

NextCsv ==
    \/ ExportDownload(CsvTables)
    \/ ParseAndProject
    \/ SaveFile
    \/ Except
    \/ Finally

SpecCsv == InitCsv /\ [][NextCsv]_vars

\* Violated under Spec: InitCsv is a state of the whole workflow.
InitCsvUnreached == ~InitCsv

Terminated == pc \in {"returned", "escaped"}


\* ------------------------------------------------------------------------
\* Properties of run_scraper (under Spec)
\* ------------------------------------------------------------------------
FirstFailure == exc[1]
FailedAtPrompt == exc # <<>> /\ FirstFailure[2] \in {"date_start", "date_end"}

\* C1: in every run that started a browser, driver.quit() has been invoked
\* when run_scraper ends, whichever step failed.
C1_StartedBrowserIsClosed ==
    (Terminated /\ browser # "none") => quit_called

\* The dashboard-ready marker did not appear within the 60 s wait.
AuthenticationTimeout ==
    exc # <<>> /\ FirstFailure = << "TimeoutException", "login_dashboard" >>

\* C2: when login fails with the dashboard wait's timeout, driver.quit() is
\* invoked after the failure and before run_scraper ends.
C2_ClosedAfterAuthenticationTimeout ==
    /\ AuthenticationTimeout /\ Terminated => quit_called
    /\ AuthenticationTimeout /\ pc \in {"except", "finally"} => ~quit_called

C2_Witness ==
    /\ AuthenticationTimeout
    /\ pc = "returned"
    /\ quit_called
    /\ browser = "closed"

\* C3: a run in which download_and_parse_csv did not return leaves the
\* working directory as it found it: no output file created, truncated or
\* written.
C3_NoPartialOutput ==
    (Terminated /\ returned_json = <<>>) => files = files_at_start

\* run_scraper has gone past its configuration check.
PastConfigCheck ==
    /\ pc \notin {"date_start", "date_end", "check_env"}
    /\ ~FailedAtPrompt

MissingReported ==
    /\ pc = "returned"
    /\ reported = << "ERROR: Missing environment variables." >>
    /\ browser = "none"
    /\ stages = << "validate.ok" >>
    /\ files = files_at_start

\* C4: with any of the three configuration inputs absent from the
\* environment, run_scraper reports the missing configuration and returns
\* with no browser session created and no file written.
C4_AllThreeRequired ==
    (PastConfigCheck /\ (env_url = None \/ USER_EMAIL = None \/ USER_PASS = None))
        => MissingReported

\* C5: no exception leaves run_scraper, whichever step fails.
C5_NoExceptionEscapes == pc # "escaped"

\* The stage events of a run that fails nowhere, in order.
FullOrder ==
    << "validate.ok", "session", "session.ok", "login", "login.ok",
       "navigate", "navigate.ok", "filter", "filter.ok", "export",
       "export.ok", "write", "write.ok" >>

IsPrefix(p, q) == Len(p) <= Len(q) /\ SubSeq(q, 1, Len(p)) = p

\* The stage events but the cleanup's.
StagesRun ==
    IF stages # <<>> /\ stages[Len(stages)] = "cleanup"
    THEN SubSeq(stages, 1, Len(stages) - 1)
    ELSE stages

\* The stage a step of the try block belongs to.
StageOf(where) ==
    CASE where = "init_driver" -> "session"
      [] where \in {"login_get", "login_identity", "login_secret",
                    "login_dashboard"} -> "login"
      [] where = "click_reservations" -> "navigate"
      [] where \in {"filter_capture", "filter_from", "filter_to",
                    "filter_submit", "filter_wait"} -> "filter"
      [] where \in {"export_locate", "export_download", "parse"} -> "export"
      [] where = "save" -> "write"
      [] OTHER -> "none"

\* A success status: 2xx.
SuccessStatus(status) == 200 <= status /\ status < 300

\* C6: the stages run in the fixed order, each only after every earlier one
\* succeeded; a file is written only after login saw the dashboard, the
\* filter wait saw the location change and the export GET succeeded; and
\* after the first failing stage nothing runs but the cleanup.
C6_StagesInOrder ==
    /\ IsPrefix(StagesRun, FullOrder)
    /\ files # files_at_start =>
          /\ IsPrefix(SubSeq(FullOrder, 1, 12), StagesRun)
          /\ SuccessStatus(response.status)
          /\ identity_sent = 1 /\ secret_sent = 1 /\ submits = 1
    /\ (exc # <<>> /\ FirstFailure[2] \notin {"date_start", "date_end", "finally"}) =>
          /\ StagesRun[Len(StagesRun)] = StageOf(FirstFailure[2])
          /\ pc \in {"except", "finally", "returned", "escaped"}


\* ------------------------------------------------------------------------
\* Properties of get_date_input (under SpecDate)
\* ------------------------------------------------------------------------
\* DD-MM-YYYY as the prompt states it: the ten digits are 0-9.
IsDDMMYYYY(s) ==
    /\ Len(s) = 10
    /\ \A i \in {1, 2, 4, 5, 7, 8, 9, 10} : s[i] \in AsciiDigits
    /\ s[3] = "-" /\ s[6] = "-"

\* The Gregorian calendar's month lengths.
MonthLength(y, m) ==
    CASE m \in {1, 3, 5, 7, 8, 10, 12} -> 31
      [] m \in {4, 6, 9, 11} -> 30
      [] m = 2 -> IF y % 400 = 0 \/ (y % 4 = 0 /\ y % 100 # 0) THEN 29 ELSE 28

\* A DD-MM-YYYY string whose day or month does not exist.
NonExistentDate(s) ==
    \/ MonthOf(s) \notin 1 .. 12
    \/ DayOf(s) \notin 1 .. MonthLength(YearOf(s), MonthOf(s))

\* The value the last accepted input made get_date_input return.
LastResult == IF date_to # <<>> THEN date_to ELSE date_from

\* What the validator is given: the typed line without the surrounding
\* whitespace.
TypedDate == Strip(raw_input)

\* C7: get_date_input returns only for an input that is a DD-MM-YYYY string
\* of a real date, returns that input's endpoint, and after an invalid input
\* prompts again, however many invalid inputs came before.
C7_ReturnsFirstValidInput ==
    /\ outcome = "accepted" =>
          /\ LastResult[1] = TypedDate
          /\ IsDDMMYYYY(LastResult[1])
          /\ ~NonExistentDate(LastResult[1])
    /\ outcome \in {"InvalidFormat", "InvalidCalendarDate"} =>
          /\ ~(IsDDMMYYYY(TypedDate) /\ ~NonExistentDate(TypedDate)
                  /\ YearOf(TypedDate) >= 1)
          /\ pc \in {"date_start", "date_end", "escaped"}
    /\ pc = "escaped" => exc[Len(exc)][1] = "EOFError"

\* C8: an input that is no DD-MM-YYYY string is rejected as InvalidFormat
\* with no calendar check, one that is but names a non-existent date is
\* rejected as InvalidCalendarDate, and none of them is accepted.
C8_RejectionKinds ==
    outcome # "none" =>
        /\ ~IsDDMMYYYY(TypedDate) =>
              outcome = "InvalidFormat" /\ ~calendar_checked
        /\ IsDDMMYYYY(TypedDate) /\ NonExistentDate(TypedDate) =>
              outcome = "InvalidCalendarDate"

\* C9: for an accepted DD-MM-YYYY input the canonical form is the input and
\* the display form is its two day digits, a space, the month's three
\* upper-case letters, a space and its four year digits: 11 characters.
C9_CanonicalAndDisplayForms ==
    (outcome = "accepted" /\ IsDDMMYYYY(raw_input)) =>
        /\ LastResult[1] = raw_input
        /\ Len(LastResult[2]) = 11
        /\ SubSeq(LastResult[2], 1, 2) = SubSeq(raw_input, 1, 2)
        /\ LastResult[2][3] = " "
        /\ SubSeq(LastResult[2], 4, 6) = MonthAbbrUpper(MonthOf(raw_input))
        /\ LastResult[2][7] = " "
        /\ SubSeq(LastResult[2], 8, 11) = SubSeq(raw_input, 7, 10)

\* ------------------------------------------------------------------------
\* Properties of the normaliser (under SpecCsv)
\* ------------------------------------------------------------------------
AllowListPosition(col) ==
    CHOOSE i \in DOMAIN columns_to_keep : columns_to_keep[i] = col

FieldNames(record) == [ j \in DOMAIN record |-> record[j][1] ]

\* C10: every output record's fields are exactly the source columns that are
\* on the allow-list, in the allow-list's order, and neither an extra source
\* column nor a missing allow-list column raises an error.
C10_ColumnProjection ==
    /\ reservations_json # <<>> =>
          \A i \in DOMAIN reservations_json[1] :
              LET names == FieldNames(reservations_json[1][i]) IN
              /\ Range(names) = Range(response.table.header) \cap Range(columns_to_keep)
              /\ \A j, k \in DOMAIN names :
                    j < k => AllowListPosition(names[j]) < AllowListPosition(names[k])
    /\ \A e \in DOMAIN exc : exc[e][2] = "parse" => ~response.parseable

C10_Witness ==
    /\ reservations_json # <<>>
    /\ response.table.header = << "ETA", "Extra1", "Status" >>
    /\ Len(reservations_json[1]) = 2
    /\ FieldNames(reservations_json[1][2]) = << "Status", "ETA" >>

\* The cell of row i of the downloaded table in column col.
SourceCell(table, i, col) == table.rows[i][ColumnIndex(table.header, col)]

\* The file this run writes.
OutputName == OutputFilename(date_from[1], date_to[1])

\* download_and_parse_csv has left its save step, in whichever way.
PastSave ==
    /\ reservations_json # <<>>
    /\ pc \in {"except", "finally", "returned", "escaped"}

\* The save step met an I/O error (open or write).
SaveIOError == \E e \in DOMAIN exc : exc[e] = << "OSError", "save" >>

RowProjection(table, i) ==
    LET cols == SelectSeq(columns_to_keep, LAMBDA c : c \in Range(table.header)) IN
    [ j \in 1 .. Len(cols) |->
        LET cell == SourceCell(table, i, cols[j]) IN
        << cols[j], IF cell = EmptyCell THEN NA ELSE cell >> ]

DatesSupplied == pc = "check_env"

\* C13: once both dates are accepted, run_scraper reaches its end, whatever
\* the application and the export server do or fail to do.
C13_AlwaysTerminates == DatesSupplied ~> Terminated

\* ------------------------------------------------------------------------
\* The output file (under Spec)
\* ------------------------------------------------------------------------
\* C14: the only file a run touches is reservations_{from}_to_{to}.json of
\* the two canonical forms, no file is named after the display forms, which
\* are what the filter inputs receive, and the file holds records of this
\* run alone: after a run that returned, exactly the returned list, also
\* when an earlier run of the same range had left its file there.
C14_NameAndOverwrite ==
    /\ files # files_at_start =>
          /\ DOMAIN files = DOMAIN files_at_start \cup {OutputName}
          /\ \A n \in DOMAIN files_at_start \ {OutputName} :
                files[n] = files_at_start[n]
          /\ OutputFilename(date_from[2], date_to[2]) \notin DOMAIN files
          /\ IsPrefix(files[OutputName].records, reservations_json[1])
    /\ submits > 0 => filter_fields = << date_from[2], date_to[2] >>
    /\ returned_json # <<>> =>
          /\ OutputName \in DOMAIN files
          /\ files[OutputName] = [records |-> returned_json[1], complete |-> TRUE]

C14_Witness ==
    /\ pc = "returned"
    /\ returned_json # <<>>
    /\ Len(returned_json[1]) > 0
    /\ OutputName \in DOMAIN files_at_start
    /\ files_at_start[OutputName] = PriorContent
    /\ files[OutputName].records = returned_json[1]
    /\ DOMAIN files = DOMAIN files_at_start

\* ------------------------------------------------------------------------
\* The export GET (under Spec)
\* ------------------------------------------------------------------------
\* The export GET was answered.
Answered == response.status # 0

\* C15: when the export GET is answered with a status that is not a success
\* status, download_and_parse_csv fails at the download with an error whose
\* text carries the status code, the answer's body is never parsed into
\* records and no file is written.
C15_NoParseAfterFailedDownload ==
    (Answered /\ ~SuccessStatus(response.status)) =>
        /\ exc # <<>>
        /\ FirstFailure = << "HTTPError", "export_download" >>
        /\ pc \in {"except", "finally", "returned", "escaped"}
        /\ pc \in {"finally", "returned", "escaped"} =>
              \E k \in DOMAIN reported :
                  reported[k] = "An error occurred: " \o ToString(response.status)
                                    \o (IF response.status < 500
                                        THEN " Client Error" ELSE " Server Error")
        /\ reservations_json = <<>>
        /\ returned_json = <<>>
        /\ files = files_at_start

\* ------------------------------------------------------------------------
\* apply_date_filters in run_scraper (under Spec)
\* ------------------------------------------------------------------------
\* The list as the submitted range filters it.
FilteredList == ListPage(<< date_from[2], date_to[2] >>)

\* C16: when apply_date_filters has returned and the export link is about
\* to be read, the browser shows the list filtered by the submitted range:
\* the location change that ended the wait was the filter submission's.
C16_WaitEndsOnFilterNavigation ==
    pc = "export_locate" => location = FilteredList

\* apply_date_filters returned normally.
FilterReturned == \E k \in DOMAIN stages : stages[k] = "filter.ok"

\* apply_date_filters failed in its last wait.
FilterTimeout ==
    exc # <<>> /\ FirstFailure = << "TimeoutException", "filter_wait" >>

NoField == <<>>

\* C17: apply_date_filters captures the location, fills 'from', fills 'to',
\* clicks submit once and waits, in this order; it has returned only where
\* the location differs from the captured one; a wait that ends with the
\* location unchanged ends in a timeout, with the form submitted once.
C17_FilterStepsAndReturn ==
    /\ submits <= 1
    /\ pc = "filter_capture" =>
          old_url = <<>> /\ filter_fields = << NoField, NoField >> /\ submits = 0
    /\ pc = "filter_from" =>
          old_url # <<>> /\ filter_fields = << NoField, NoField >> /\ submits = 0
    /\ pc = "filter_to" =>
          old_url # <<>> /\ filter_fields = << date_from[2], NoField >> /\ submits = 0
    /\ pc = "filter_submit" =>
          filter_fields = << date_from[2], date_to[2] >> /\ submits = 0
    /\ pc = "filter_wait" =>
          filter_fields = << date_from[2], date_to[2] >> /\ submits = 1
    /\ pc \in {"export_locate", "export_download", "export_blocked", "parse", "save"} =>
          FilterReturned
    /\ FilterReturned =>
          /\ location # old_url[1]
          /\ submits = 1
          /\ \A e \in DOMAIN exc : exc[e][2] # "filter_wait"
    /\ FilterTimeout => ~FilterReturned /\ submits = 1
    /\ (exc # <<>> /\ FirstFailure[2] = "filter_wait") => FilterTimeout

C17_Witness ==
    /\ pc = "export_locate"
    /\ FilterReturned
    /\ old_url = << ListPage(<<>>) >>
    /\ location = FilteredList
    /\ pending_nav = <<>>
    /\ submits = 1

\* ------------------------------------------------------------------------
\* login (under Spec)
\* ------------------------------------------------------------------------
\* The two waits of login whose timeouts the design tells apart.
IdentityWait == "login_identity"
DashboardWait == "login_dashboard"

\* run_scraper's handler has printed this run's failure.
HandlerRan ==
    /\ exc # <<>>
    /\ FirstFailure[2] \notin {"date_start", "date_end", "finally"}
    /\ pc \in {"finally", "returned", "escaped"}

\* C18: the dashboard wait is longer than the form-field waits, and what the
\* handler gets when one of the two waits expires is not what it gets when
\* the other one does.
C18_LoginTimeoutsDistinct ==
    /\ DashboardTimeout > DefaultTimeout
    /\ \A w, v \in {IdentityWait, DashboardWait} :
          (HandlerRan /\ FirstFailure = << "TimeoutException", w >> /\ v # w) =>
              reported[1] # ErrorLine(<< "TimeoutException", v >>, response)

\* The authenticator's states, in order, by the position of login.
AuthState(where) ==
    CASE where = "login_get" -> 0             \* Start
      [] where = "login_identity" -> 1        \* AwaitingIdentityField
      [] where = "login_secret" -> 2          \* AwaitingSecretField
      [] where = "login_dashboard" -> 3       \* AwaitingDashboard
      [] OTHER -> 4

InLogin(where) ==
    where \in {"login_get", "login_identity", "login_secret", "login_dashboard"}

LoginReturned == \E k \in DOMAIN stages : stages[k] = "login.ok"

\* login failed: an exception left one of its steps.
LoginFailed == exc # <<>> /\ InLogin(FirstFailure[2])

\* C19, the states: each credential is submitted at most once, the secret
\* only after the identity, a login that returned has submitted both, and
\* a login that failed in a wait has submitted nothing past that wait.
C19_LoginStates ==
    /\ identity_sent <= 1 /\ secret_sent <= 1
    /\ secret_sent <= identity_sent
    /\ InLogin(pc) => identity_sent = (IF AuthState(pc) >= 2 THEN 1 ELSE 0)
    /\ InLogin(pc) => secret_sent = (IF AuthState(pc) >= 3 THEN 1 ELSE 0)
    /\ LoginReturned => identity_sent = 1 /\ secret_sent = 1 /\ ~LoginFailed
    /\ LoginFailed =>
          /\ ~LoginReturned
          /\ identity_sent = (IF AuthState(FirstFailure[2]) >= 2 THEN 1 ELSE 0)
          /\ secret_sent = (IF AuthState(FirstFailure[2]) >= 3 THEN 1 ELSE 0)

\* C19, the steps: login moves one state forward or fails, never back; the
\* identity is typed where the identity field is present, the secret where
\* the secret field is; and login returns where the dashboard-ready marker
\* is present.
C19_LoginSteps ==
    /\ (InLogin(pc) /\ pc' # pc) =>
          \/ AuthState(pc') = AuthState(pc) + 1
          \/ pc' = "except"
    /\ identity_sent' # identity_sent =>
          pc = "login_identity" /\ HasIdentityField(location)
    /\ secret_sent' # secret_sent =>
          pc = "login_secret" /\ HasSecretField(location) /\ identity_sent = 1
    /\ (pc = "login_dashboard" /\ pc' = "click_reservations") =>
          HasDashboardMarker(location)

\* C19: the authenticator goes Start -> AwaitingIdentityField ->
\* AwaitingSecretField -> AwaitingDashboard -> Authenticated with no step
\* back and no retry, submits each credential at most once and in order,
\* returns only after the dashboard-ready marker was seen, and submits
\* nothing more after a timeout.
C19_LoginStateMachine == [](C19_LoginStates) /\ [][C19_LoginSteps]_vars

C19_Witness ==
    /\ LoginReturned
    /\ pc = "click_reservations"
    /\ identity_sent = 1 /\ secret_sent = 1
    /\ HasDashboardMarker(location)

\* ------------------------------------------------------------------------
\* The export bridge (under Spec)
\* ------------------------------------------------------------------------
\* The cookies were copied into the download's session.
Bridged == pc \in {"export_download", "export_blocked", "parse", "save"}

\* The jar holds a cookie of this name with this value.
JarHolds(jar, name, value) ==
    \E k \in DOMAIN jar : k[3] = name /\ jar[k] = value

\* C20: after the bridge every cookie the browser listed is in the download
\* session's jar with its value, two cookies of one name included, and the
\* jar holds no cookie the browser did not list.
C20_CookiesTransplanted ==
    Bridged =>
        /\ \A i \in DOMAIN selenium_cookies :
              JarHolds(session_cookies, selenium_cookies[i].name,
                       selenium_cookies[i].value)
        /\ \A k \in DOMAIN session_cookies :
              \E i \in DOMAIN selenium_cookies :
                  /\ selenium_cookies[i].name = k[3]
                  /\ selenium_cookies[i].value = session_cookies[k]

=============================================================================
